---- MODULE Spec2Model ----
(***************************************************************************)
(* Model of the Alula / Cove Security integration's poll coordinator       *)
(* (custom_components/alula/coordinator.py): the zone registry, zone       *)
(* discovery, zone-state reconstruction and the poll cycle.                *)
(*                                                                         *)
(* A poll cycle (_async_update_data) is a coroutine; it is modelled as one *)
(* action per stretch of code between the points where an awaited Session  *)
(* Client call returns or raises.  The client is the environment: what it  *)
(* returns and whether it raises are chosen with \E from bounded sets.     *)
(***************************************************************************)
EXTENDS Integers, Sequences, FiniteSets, TLC

\* ------------------------------------------------------------------ bounds

\* Longest event batch get_event_log returns in the model.
MaxBatchLen == 2
\* Number of poll cycles started in one behaviour.
MaxCycles == 2
\* Number of poll cycles started in one behaviour of the cadence environment.
MaxCadenceCycles == 22

\* ------------------------------------------------------------ Python values

\* Python's None, for the optional string fields.
None == "<None>"

\* Truthiness of an optional string: None and "" are falsy.
Truthy(s) == s # None /\ s # ""

\* Python's `a or b`.
Or(a, b) == IF Truthy(a) THEN a ELSE b

\* A dict is a function; the empty dict is the empty function.
EmptyDict == << >>

\* dict.get(key) with None as the default.
Get(d, k) == IF k \in DOMAIN d THEN d[k] ELSE None

\* Characters of the user/zone field (a string is a sequence of characters).
Digits == {"0", "1", "2", "3", "4", "5", "6", "7", "8", "9"}

DigitValue(c) ==
    CASE c = "0" -> 0 [] c = "1" -> 1 [] c = "2" -> 2 [] c = "3" -> 3
      [] c = "4" -> 4 [] c = "5" -> 5 [] c = "6" -> 6 [] c = "7" -> 7
      [] c = "8" -> 8 [] c = "9" -> 9

\* str.isdigit(): non-empty and every character a digit.
IsDigit(s) == s # << >> /\ \A i \in 1..Len(s) : s[i] \in Digits

\* int(s) for a string of digits.
RECURSIVE ToInt(_)
ToInt(s) ==
    IF s = << >> THEN 0
    ELSE 10 * ToInt(SubSeq(s, 1, Len(s) - 1)) + DigitValue(s[Len(s)])

\* `not event.user_zone or not event.user_zone.isdigit()`; an absent (None)
\* user_zone and the empty string are both the empty sequence.
SkipUserZone(event) == event.user_zone = << >> \/ ~IsDigit(event.user_zone)

\* ----------------------------------------------------------- program constants

SENSOR_ZONE_TYPES == {"Zone", "Fire", ""}

DEEP_SCAN_INTERVAL == 20

WideLimit == 500

NarrowLimit == 100

CONF_REFRESH_TOKEN == "refresh_token"

\* ------------------------------------------------------- the environment's values

PanelIds == {"p1", "p2"}

CameraIds == {"c1"}

\* A Device as the coordinator uses it: its id and the two flags.
Device(id) == [id |-> id, is_panel |-> id \in PanelIds, is_camera |-> id \in CameraIds]

RECURSIVE SeqsUpTo(_, _)
SeqsUpTo(S, n) ==
    IF n = 0 THEN {<< >>}
    ELSE LET shorter == SeqsUpTo(S, n - 1)
         IN  shorter \cup {Append(s, x) : s \in {t \in shorter : Len(t) = n - 1}, x \in S}

SeqsNoDup(S) ==
    {s \in SeqsUpTo(S, Cardinality(S)) : \A i, j \in 1..Len(s) : i < j => s[i] # s[j]}

\* What async_get_devices may return: the account's devices in any order.
DeviceLists ==
    {[i \in 1..Len(ids) |-> Device(ids[i])] :
        ids \in SeqsNoDup(PanelIds \cup CameraIds)}

\* client.refresh_token after a call ("" : the client holds none).
Tokens == {"", "t1", "t2"}

ClientErrors == {"AlulaAuthError", "AlulaApiError", "AlulaConnectionError"}

\* The errors the coordinator swallows around subscription calls in a poll.
SwallowedErrors == {"AlulaApiError", "AlulaConnectionError"}

Event(uz, zt, alias, q) ==
    [user_zone |-> uz, user_zone_type |-> zt, user_zone_alias |-> alias,
     event_qualifier |-> q]

\* The event qualifiers of the Contact ID log: "1" new/open, "3" restore/close.
Qualifiers == {"1", "3"}

\* Newest-first batches of at most MaxBatchLen entries.
Batches(pool) == SeqsUpTo(pool, MaxBatchLen)

\* ------------------------------------------------------------ pure functions

\* The test both the filter and the discovery apply to a zone-type label:
\* `(label or "") in _SENSOR_ZONE_TYPES`.
IsSensorLabel(label) == Or(label, "") \in SENSOR_ZONE_TYPES

\* _filter_sensor_zones: keep the entries whose zone_type (None read as "")
\* is a sensor type.
_filter_sensor_zones(raw_zones) ==
    LET keep == {idx \in DOMAIN raw_zones : IsSensorLabel(raw_zones[idx].zone_type)}
    IN  [idx \in keep |-> raw_zones[idx]]

\* DiscoverLoop without the zone-type test.
RECURSIVE DiscoverLoopAnyLabel(_, _, _)
DiscoverLoopAnyLabel(metadata, events, new_zones) ==
    IF events = << >> THEN new_zones
    ELSE LET event == Head(events)
             rest == Tail(events)
         IN  IF SkipUserZone(event) THEN DiscoverLoopAnyLabel(metadata, rest, new_zones)
             ELSE LET zone_idx == ToInt(event.user_zone)
                      zone_type == Or(event.user_zone_type, "")
                  IN  IF \/ zone_idx = 0
                         \/ zone_idx \in DOMAIN metadata
                         \/ zone_idx \in DOMAIN new_zones
                      THEN DiscoverLoopAnyLabel(metadata, rest, new_zones)
                      ELSE DiscoverLoopAnyLabel(metadata, rest,
                               (zone_idx :> [zone_name |-> event.user_zone_alias,
                                             zone_type |-> zone_type]) @@ new_zones)

\* The loop of _discover_new_zones over the events, newest first;
\* new_zones is the dict built so far.
RECURSIVE DiscoverLoop(_, _, _)
DiscoverLoop(metadata, events, new_zones) ==
    IF events = << >> THEN new_zones
    ELSE LET event == Head(events)
             rest == Tail(events)
         IN  IF SkipUserZone(event) THEN DiscoverLoop(metadata, rest, new_zones)
             ELSE LET zone_idx == ToInt(event.user_zone)
                      zone_type == Or(event.user_zone_type, "")
                  IN  IF \/ zone_idx = 0
                         \/ zone_idx \in DOMAIN metadata
                         \/ zone_idx \in DOMAIN new_zones
                      THEN DiscoverLoop(metadata, rest, new_zones)
                      ELSE IF ~IsSensorLabel(event.user_zone_type)
                      THEN DiscoverLoop(metadata, rest, new_zones)
                      ELSE DiscoverLoop(metadata, rest,
                               (zone_idx :> [zone_name |-> event.user_zone_alias,
                                             zone_type |-> zone_type]) @@ new_zones)

\* dict.update: the entries of `other` replace or extend those of `d`.
Update(d, other) == other @@ d

\* _discover_new_zones that does not look the index up in the registry.
DiscoverIgnoringRegistry(metadata, events) == DiscoverLoop(EmptyDict, events, EmptyDict)

\* _discover_new_zones: the new zones it returns ...
_discover_new_zones(metadata, events) == DiscoverLoop(metadata, events, EmptyDict)

\* ... and the panel's metadata after the merge.
MetadataAfterDiscovery(metadata, events) ==
    LET new_zones == _discover_new_zones(metadata, events)
    IN  IF new_zones # EmptyDict THEN Update(metadata, new_zones) ELSE metadata

\* The Zone object built for a panel's zone.
Zone(panel_id, zone_idx, is_open, zone_name, zone_type) ==
    [id |-> <<panel_id, "zone", zone_idx>>,
     device_id |-> panel_id,
     zone_index |-> zone_idx,
     is_active |-> is_open,
     zone_name |-> zone_name,
     device_type_hint |-> zone_type]

\* ZoneStatesLoop without the `zone_idx in zone_states` test: the oldest wins.
RECURSIVE ZoneStatesLoopLastWins(_, _, _, _)
ZoneStatesLoopLastWins(panel_id, metadata, events, zone_states) ==
    IF events = << >> THEN zone_states
    ELSE LET event == Head(events)
             rest == Tail(events)
         IN  IF SkipUserZone(event)
             THEN ZoneStatesLoopLastWins(panel_id, metadata, rest, zone_states)
             ELSE LET zone_idx == ToInt(event.user_zone)
                  IN  IF zone_idx = 0 \/ zone_idx \notin DOMAIN metadata
                      THEN ZoneStatesLoopLastWins(panel_id, metadata, rest, zone_states)
                      ELSE LET is_open == event.event_qualifier = "1"
                               meta == metadata[zone_idx]
                               zone_name == Or(meta.zone_name, event.user_zone_alias)
                               zone_type == Or(meta.zone_type, event.user_zone_type)
                           IN  ZoneStatesLoopLastWins(panel_id, metadata, rest,
                                   (zone_idx :> Zone(panel_id, zone_idx, is_open,
                                                     zone_name, zone_type))
                                   @@ zone_states)

\* The first loop of the state reconstruction: the newest event per zone.
RECURSIVE ZoneStatesLoop(_, _, _, _)
ZoneStatesLoop(panel_id, metadata, events, zone_states) ==
    IF events = << >> THEN zone_states
    ELSE LET event == Head(events)
             rest == Tail(events)
         IN  IF SkipUserZone(event)
             THEN ZoneStatesLoop(panel_id, metadata, rest, zone_states)
             ELSE LET zone_idx == ToInt(event.user_zone)
                  IN  IF zone_idx = 0 \/ zone_idx \in DOMAIN zone_states
                      THEN ZoneStatesLoop(panel_id, metadata, rest, zone_states)
                      ELSE IF zone_idx \notin DOMAIN metadata
                      THEN ZoneStatesLoop(panel_id, metadata, rest, zone_states)
                      ELSE LET is_open == event.event_qualifier = "1"
                               meta == metadata[zone_idx]
                               zone_name == Or(meta.zone_name, event.user_zone_alias)
                               zone_type == Or(meta.zone_type, event.user_zone_type)
                           IN  ZoneStatesLoop(panel_id, metadata, rest,
                                   (zone_idx :> Zone(panel_id, zone_idx, is_open,
                                                     zone_name, zone_type))
                                   @@ zone_states)

\* DefaultZone that reports the zone open.
DefaultZoneOpen(panel_id, zone_idx, meta) ==
    Zone(panel_id, zone_idx, TRUE, meta.zone_name, meta.zone_type)

\* The second loop: every known zone without a state defaults to closed.
DefaultZone(panel_id, zone_idx, meta) ==
    Zone(panel_id, zone_idx, FALSE, meta.zone_name, meta.zone_type)

\* BuildZoneStates without the second loop.
BuildZoneStatesNoDefaults(panel_id, metadata, events) ==
    ZoneStatesLoop(panel_id, metadata, events, EmptyDict)

\* zone_states of one panel: both loops.
BuildZoneStates(panel_id, metadata, events) ==
    LET zone_states == ZoneStatesLoop(panel_id, metadata, events, EmptyDict)
    IN  [zone_idx \in DOMAIN zone_states \cup DOMAIN metadata |->
            IF zone_idx \in DOMAIN zone_states
            THEN zone_states[zone_idx]
            ELSE DefaultZone(panel_id, zone_idx, metadata[zone_idx])]

\* -------------------------------------------------------------------- state

VARIABLES
    zone_metadata,      \* self._zone_metadata: panel id -> zone index -> metadata
    zones_initialized,  \* self._zones_initialized
    poll_count,         \* self._poll_count
    refresh_token,      \* self.client.refresh_token
    entry_data,         \* self.config_entry.data
    data,               \* coordinator.data: NoData (None) or Some(snapshot)
    last_update,        \* how the last finished cycle ended
    pc,                 \* where the running cycle is: "idle", "init" or "poll"
    panels,             \* the running cycle's panel ids, in the order of the panels dict
    cameras,            \* the running cycle's camera ids
    todo,               \* the panel ids the running loop has still to visit
    zone_map,           \* the zone_map being built by _async_poll_zone_states
    event_limit,        \* the limit _async_poll_zone_states computed, 0 outside it
    step,               \* the coordinator step taken last
    call,               \* the last Session Client call and the error it raised, if any
    returned,           \* the device list the last step's async_get_devices returned
    cur,                \* panel_id of the loop iteration the last step ran
    raw_zones,          \* what async_discover_zones last returned, until the next poll step
    events,             \* what async_get_event_log last returned in this cycle
    new_zones,          \* what _discover_new_zones last returned in this cycle
    sub_result,         \* how the last step's subscription call ended
    sub_count,          \* per <<panel, zone index>>: subscription requests made so far
    sensor_seen,        \* history: <<panel, zone index>> seen with a sensor label
    ended_keys,         \* history: <<panel, zone index>> registered at the end of a cycle
    widths,             \* history: the event-log limit of each successful cycle, in order
    cycles,             \* cycles started so far
    tracked,            \* the event log of TrackedPanel: where its tracked entry lies
    command,            \* the alarm panel entity's last command and how far it got
    known_keys,         \* binary_sensor.async_setup_entry: known_keys
    entities,           \* per <<panel, zone index>>: zone entities handed to async_add_entities
    notified            \* cycles started when the zone listener last ran, -1 before setup

vars == <<zone_metadata, zones_initialized, poll_count, refresh_token, entry_data,
          data, last_update, pc, panels, cameras, todo, zone_map, event_limit,
          step, call, returned, cur, raw_zones, events, new_zones, sub_result,
          sub_count, sensor_seen, ended_keys, widths, cycles,
          tracked, command, known_keys, entities, notified>>

\* What lies outside the coordinator object: the panel's event log, and the
\* entities of the alarm panel and binary sensor platforms.
outside == <<tracked, command, known_keys, entities, notified>>

\* An optional value: the empty sequence for None, else the value in a 1-tuple.
NoData == << >>

Some(v) == <<v>>

Value(opt) == opt[1]

NoCall == [name |-> "", err |-> ""]

Call(name, err) == [name |-> name, err |-> err]

\* No command given yet.
NoCommand ==
    [service |-> "", device |-> "", pc |-> "done", calls |-> << >>, err |-> "",
     refreshes |-> 0, raised |-> FALSE]

\* The <<panel, zone index>> pairs of a registry.
Keys(registry) == UNION {{<<p, z>> : z \in DOMAIN registry[p]} : p \in DOMAIN registry}

\* AlulaDataUpdateCoordinator.__init__, on the entry the config flow created.
Init ==
    /\ zone_metadata = EmptyDict
    /\ zones_initialized = FALSE
    /\ poll_count = 0
    /\ refresh_token \in Tokens \ {""}
    /\ entry_data = [username |-> "user", password |-> "secret", refresh_token |-> "t1"]
    /\ data = NoData
    /\ last_update = [success |-> TRUE, message |-> ""]
    /\ pc = "idle"
    /\ panels = << >>
    /\ cameras = {}
    /\ todo = << >>
    /\ zone_map = EmptyDict
    /\ event_limit = 0
    /\ step = "Init"
    /\ call = NoCall
    /\ returned = NoData
    /\ cur = ""
    /\ raw_zones = EmptyDict
    /\ events = << >>
    /\ new_zones = EmptyDict
    /\ sub_result = "none"
    /\ sub_count = EmptyDict
    /\ sensor_seen = {}
    /\ ended_keys = {}
    /\ widths = << >>
    /\ cycles = 0
    /\ tracked = [depth |-> "none", at |-> 0]
    /\ command = NoCommand
    /\ known_keys = {}
    /\ entities = EmptyDict
    /\ notified = -1

\* ------------------------------------------------------------ cycle helpers

\* UpdateFailedMessage with one message for every error.
UpdateFailedMessageSame(err) == "API error"

\* The message of the UpdateFailed raised for a client error.
UpdateFailedMessage(err) ==
    IF err = "AlulaAuthError" THEN "Authentication error" ELSE "API error"

\* RaiseUpdateFailed that counts the failed poll.
RaiseUpdateFailedCounted(err, registry) ==
    /\ last_update' = [success |-> FALSE, message |-> UpdateFailedMessage(err)]
    /\ pc' = "idle"
    /\ panels' = << >>
    /\ cameras' = {}
    /\ todo' = << >>
    /\ zone_map' = EmptyDict
    /\ event_limit' = 0
    /\ ended_keys' = ended_keys \cup Keys(registry)
    /\ poll_count' = poll_count + 1
    /\ UNCHANGED <<data, widths>>

\* RaiseUpdateFailed that publishes the zone maps built before the failure.
RaiseUpdateFailedPartial(err, registry) ==
    /\ last_update' = [success |-> FALSE, message |-> UpdateFailedMessage(err)]
    /\ pc' = "idle"
    /\ panels' = << >>
    /\ cameras' = {}
    /\ todo' = << >>
    /\ zone_map' = EmptyDict
    /\ event_limit' = 0
    /\ ended_keys' = ended_keys \cup Keys(registry)
    /\ data' = IF zone_map = EmptyDict THEN data
               ELSE Some([panels |-> [id \in {panels[i] : i \in 1..Len(panels)} |-> Device(id)],
                          cameras |-> [id \in cameras |-> Device(id)],
                          zones |-> zone_map])
    /\ UNCHANGED <<poll_count, widths>>

\* The except clauses: the cycle ends with UpdateFailed, the coordinator keeps
\* its data and the counter; `registry` is the registry the step leaves.
RaiseUpdateFailed(err, registry) ==
    /\ last_update' = [success |-> FALSE, message |-> UpdateFailedMessage(err)]
    /\ pc' = "idle"
    /\ panels' = << >>
    /\ cameras' = {}
    /\ todo' = << >>
    /\ zone_map' = EmptyDict
    /\ event_limit' = 0
    /\ ended_keys' = ended_keys \cup Keys(registry)
    /\ UNCHANGED <<data, poll_count, widths>>

\* EventLimit with the wide scan on the first poll only.
EventLimitFirstOnly == IF poll_count = 0 THEN WideLimit ELSE NarrowLimit

\* EventLimit with the wide scan one cycle early.
EventLimitOffByOne ==
    IF (poll_count + 1) % DEEP_SCAN_INTERVAL = 0 THEN WideLimit ELSE NarrowLimit

\* The head of _async_poll_zone_states: `limit`, computed once per cycle.
EventLimit == IF poll_count % DEEP_SCAN_INTERVAL = 0 THEN WideLimit ELSE NarrowLimit

\* The end of the try block: count the poll and return the snapshot of the
\* panels `ps`, the cameras `cs` and the zone map `zm`.
ReturnSnapshot(ps, cs, zm, registry) ==
    /\ poll_count' = poll_count + 1
    /\ widths' = Append(widths, IF pc = "poll" THEN event_limit ELSE EventLimit)
    /\ data' = Some([panels |-> [id \in {ps[i] : i \in 1..Len(ps)} |-> Device(id)],
                     cameras |-> [id \in cs |-> Device(id)],
                     zones |-> zm])
    /\ last_update' = [success |-> TRUE, message |-> ""]
    /\ pc' = "idle"
    /\ panels' = << >>
    /\ cameras' = {}
    /\ todo' = << >>
    /\ zone_map' = EmptyDict
    /\ event_limit' = 0
    /\ ended_keys' = ended_keys \cup Keys(registry)

\* EnterPoll that takes an account without panels for an API error.
EnterPollNeedsPanels(ps, cs, registry) ==
    IF ps = << >>
    THEN RaiseUpdateFailed("AlulaApiError", registry)
    ELSE /\ pc' = "poll"
         /\ panels' = ps
         /\ cameras' = cs
         /\ todo' = ps
         /\ zone_map' = EmptyDict
         /\ event_limit' = EventLimit
         /\ UNCHANGED <<data, poll_count, last_update, ended_keys, widths>>

\* Enter _async_poll_zone_states over the panels `ps` (cameras `cs`): with no
\* panel the loop body never runs and the cycle returns at once.
EnterPoll(ps, cs, registry) ==
    IF ps = << >>
    THEN ReturnSnapshot(ps, cs, EmptyDict, registry)
    ELSE /\ pc' = "poll"
         /\ panels' = ps
         /\ cameras' = cs
         /\ todo' = ps
         /\ zone_map' = EmptyDict
         /\ event_limit' = EventLimit
         /\ UNCHANGED <<data, poll_count, last_update, ended_keys, widths>>

\* PersistToken that also stores an empty token.
PersistTokenAlways(token) ==
    entry_data' =
        IF Get(entry_data, CONF_REFRESH_TOKEN) # token
        THEN [entry_data EXCEPT ![CONF_REFRESH_TOKEN] = token]
        ELSE entry_data

\* "Persist refresh token if it changed".
PersistToken(token) ==
    entry_data' =
        IF Truthy(token) /\ Get(entry_data, CONF_REFRESH_TOKEN) # token
        THEN [entry_data EXCEPT ![CONF_REFRESH_TOKEN] = token]
        ELSE entry_data

\* The keys of `panels = {d.id: d for d in devices if d.is_panel}`, in order.
PanelOrder(devices) ==
    LET ps == SelectSeq(devices, LAMBDA d : d.is_panel)
    IN  [i \in 1..Len(ps) |-> ps[i].id]

\* The keys of `cameras = {d.id: d for d in devices if d.is_camera}`.
CameraSet(devices) == {devices[i].id : i \in {j \in 1..Len(devices) : devices[j].is_camera}}

\* One more subscription request for each of the zone indices of a panel.
CountSubscriptions(panel_id, indices) ==
    LET keys == {<<panel_id, z>> : z \in indices}
    IN  [k \in DOMAIN sub_count \cup keys |->
            (IF k \in DOMAIN sub_count THEN sub_count[k] ELSE 0)
            + (IF k \in keys THEN 1 ELSE 0)]

\* SetDefault that starts a new panel with the zones of the other panels.
SetDefaultShared(registry, panel_id) ==
    IF panel_id \in DOMAIN registry THEN registry
    ELSE (panel_id :>
             [z \in UNION {DOMAIN registry[q] : q \in DOMAIN registry} |->
                 registry[CHOOSE q \in DOMAIN registry : z \in DOMAIN registry[q]][z]])
         @@ registry

\* dict.setdefault(panel_id, {}) on the registry.
SetDefault(registry, panel_id) ==
    IF panel_id \in DOMAIN registry THEN registry
    ELSE (panel_id :> EmptyDict) @@ registry

\* `if new_zones:` / `if zone_info:`, the guard of a subscription request.
ShouldSubscribe(zones) == zones # EmptyDict

\* The labels of the accepted sensor set: generic zone, fire, empty, absent.
AcceptedLabels == {"Zone", "Fire", "", None}

\* History: the zone indices a batch shows with an accepted label.
SensorIndices(batch) ==
    {ToInt(batch[i].user_zone) :
        i \in {j \in 1..Len(batch) : /\ ~SkipUserZone(batch[j])
                                     /\ batch[j].user_zone_type \in AcceptedLabels}}

\* History: the zone indices a deep-scan result shows with an accepted label.
RawSensorIndices(raw) == {z \in DOMAIN raw : raw[z].zone_type \in AcceptedLabels}

\* ------------------------------------------------------------------ actions

\* _async_update_data up to the first await after async_get_devices returned.
GetDevices(devices, token) ==
    /\ pc = "idle"
    /\ cycles' = cycles + 1
    /\ step' = "GetDevices"
    /\ returned' = Some(devices)
    /\ call' = Call("async_get_devices", "")
    /\ refresh_token' = token
    /\ PersistToken(token)
    /\ cur' = ""
    /\ raw_zones' = EmptyDict
    /\ events' = << >>
    /\ new_zones' = EmptyDict
    /\ sub_result' = "none"
    /\ UNCHANGED <<zone_metadata, sub_count, sensor_seen>>
    /\ IF ~zones_initialized /\ PanelOrder(devices) # << >>
       THEN /\ pc' = "init"
            /\ panels' = PanelOrder(devices)
            /\ cameras' = CameraSet(devices)
            /\ todo' = PanelOrder(devices)
            /\ UNCHANGED <<zones_initialized, zone_map, event_limit, data,
                           poll_count, last_update, ended_keys, widths>>
       ELSE /\ zones_initialized' = TRUE
            /\ EnterPoll(PanelOrder(devices), CameraSet(devices), zone_metadata)
    /\ UNCHANGED outside

\* async_get_devices raises.
GetDevicesFail(err) ==
    /\ pc = "idle"
    /\ cycles' = cycles + 1
    /\ step' = "GetDevicesFail"
    /\ returned' = NoData
    /\ call' = Call("async_get_devices", err)
    /\ cur' = ""
    /\ raw_zones' = EmptyDict
    /\ events' = << >>
    /\ new_zones' = EmptyDict
    /\ sub_result' = "none"
    /\ RaiseUpdateFailed(err, zone_metadata)
    /\ UNCHANGED <<zone_metadata, zones_initialized, refresh_token, entry_data,
                   sub_count, sensor_seen>>
    /\ UNCHANGED outside

\* _async_initialize_zones, one panel: async_discover_zones raises.
InitDiscoverFail(err) ==
    /\ pc = "init"
    /\ step' = "InitDiscoverFail"
    /\ returned' = NoData
    /\ call' = Call("async_discover_zones", err)
    /\ cur' = Head(todo)
    /\ sub_result' = "none"
    /\ RaiseUpdateFailed(err, zone_metadata)
    /\ UNCHANGED <<zone_metadata, zones_initialized, refresh_token, entry_data,
                   raw_zones, events, new_zones, sub_count, sensor_seen, cycles>>
    /\ UNCHANGED outside

\* _async_initialize_zones, one panel: the deep scan returns, the registry entry
\* of the panel is assigned, and async_ensure_zone_subscriptions raises.
InitSubscribeFail(raw, err) ==
    /\ pc = "init"
    /\ step' = "InitSubscribeFail"
    /\ returned' = NoData
    /\ LET panel_id == Head(todo)
           zone_info == _filter_sensor_zones(raw)
           registry == (panel_id :> zone_info) @@ zone_metadata
       IN  /\ ShouldSubscribe(zone_info)
           /\ zone_metadata' = registry
           /\ sub_count' = CountSubscriptions(panel_id, DOMAIN zone_info)
           /\ sensor_seen' = sensor_seen \cup {<<panel_id, z>> : z \in RawSensorIndices(raw)}
           /\ cur' = panel_id
           /\ RaiseUpdateFailed(err, registry)
    /\ raw_zones' = raw
    /\ call' = Call("async_ensure_zone_subscriptions", err)
    /\ sub_result' = err
    /\ UNCHANGED <<zones_initialized, refresh_token, entry_data, events, new_zones,
                   cycles>>
    /\ UNCHANGED outside

\* _async_initialize_zones, one panel, no error escaping: deep scan, filter,
\* assignment, subscriptions and (error swallowed) renewal; after the last
\* panel the cycle goes on into _async_poll_zone_states.
InitPanel(raw, renew) ==
    /\ pc = "init"
    /\ step' = "InitPanel"
    /\ returned' = NoData
    /\ LET panel_id == Head(todo)
           zone_info == _filter_sensor_zones(raw)
           registry == (panel_id :> zone_info) @@ zone_metadata
       IN  /\ zone_metadata' = registry
           /\ sensor_seen' = sensor_seen \cup {<<panel_id, z>> : z \in RawSensorIndices(raw)}
           /\ cur' = panel_id
           /\ IF ShouldSubscribe(zone_info)
              THEN /\ sub_count' = CountSubscriptions(panel_id, DOMAIN zone_info)
                   /\ sub_result' = "ok"
                   /\ call' = Call("async_renew_notifications", renew)
              ELSE /\ renew = ""
                   /\ sub_result' = "none"
                   /\ call' = Call("async_discover_zones", "")
                   /\ UNCHANGED sub_count
           /\ IF Tail(todo) # << >>
              THEN /\ todo' = Tail(todo)
                   /\ UNCHANGED <<zones_initialized, pc, panels, cameras, zone_map,
                                  event_limit, data, poll_count, last_update,
                                  ended_keys, widths>>
              ELSE /\ zones_initialized' = TRUE
                   /\ EnterPoll(panels, cameras, registry)
    /\ raw_zones' = raw
    /\ UNCHANGED <<refresh_token, entry_data, events, new_zones, cycles>>
    /\ UNCHANGED outside

\* _async_poll_zone_states, one panel: async_get_event_log raises (after the
\* setdefault on the registry; events and new_zones keep the values of the
\* loop's previous iteration).
PollPanelFail(err) ==
    /\ pc = "poll"
    /\ step' = "PollPanelFail"
    /\ returned' = NoData
    /\ zone_metadata' = SetDefault(zone_metadata, Head(todo))
    /\ call' = Call("async_get_event_log", err)
    /\ cur' = Head(todo)
    /\ sub_result' = "none"
    /\ raw_zones' = EmptyDict
    /\ RaiseUpdateFailed(err, SetDefault(zone_metadata, Head(todo)))
    /\ UNCHANGED <<zones_initialized, refresh_token, entry_data, events, new_zones,
                   sub_count, sensor_seen, cycles>>
    /\ UNCHANGED outside

\* _async_poll_zone_states, one panel: the event log returns; discovery,
\* subscriptions for the new zones (errors swallowed), reconstruction; after
\* the last panel the cycle returns its snapshot.
PollPanel(batch, sub) ==
    /\ pc = "poll"
    /\ Len(batch) <= event_limit
    /\ step' = "PollPanel"
    /\ returned' = NoData
    /\ LET panel_id == Head(todo)
           metadata == SetDefault(zone_metadata, panel_id)[panel_id]
           found == _discover_new_zones(metadata, batch)
           merged == MetadataAfterDiscovery(metadata, batch)
           registry == (panel_id :> merged) @@ zone_metadata
           zone_states == BuildZoneStates(panel_id, merged, batch)
           zm == (panel_id :> zone_states) @@ zone_map
       IN  /\ zone_metadata' = registry
           /\ sensor_seen' = sensor_seen \cup {<<panel_id, z>> : z \in SensorIndices(batch)}
           /\ cur' = panel_id
           /\ new_zones' = found
           /\ IF ShouldSubscribe(found)
              THEN /\ sub_count' = CountSubscriptions(panel_id, DOMAIN found)
                   /\ sub_result' = IF sub = "" THEN "ok" ELSE sub
                   /\ call' = Call("async_ensure_zone_subscriptions", sub)
              ELSE /\ sub = ""
                   /\ sub_result' = "none"
                   /\ call' = Call("async_get_event_log", "")
                   /\ UNCHANGED sub_count
           /\ IF Tail(todo) # << >>
              THEN /\ todo' = Tail(todo)
                   /\ zone_map' = zm
                   /\ UNCHANGED <<pc, panels, cameras, event_limit, data, poll_count,
                                  last_update, ended_keys, widths>>
              ELSE ReturnSnapshot(panels, cameras, zm, registry)
    /\ events' = batch
    /\ raw_zones' = EmptyDict
    /\ UNCHANGED <<zones_initialized, refresh_token, entry_data, cycles>>
    /\ UNCHANGED outside

\* The Session Client replaces its refresh token: self.client.refresh_token is
\* an attribute of the client, which any of its calls (one awaited by the
\* running cycle, or one made for a command between cycles) may set.
ClientRefresh(token) ==
    /\ token # refresh_token
    /\ refresh_token' = token
    /\ UNCHANGED <<zone_metadata, zones_initialized, poll_count, entry_data, data,
                   last_update, pc, panels, cameras, todo, zone_map, event_limit,
                   step, call, returned, cur, raw_zones, events, new_zones,
                   sub_result, sub_count, sensor_seen, ended_keys, widths, cycles>>
    /\ UNCHANGED outside

\* The panel and the log entry whose place in the event log is tracked: an
\* opening of its zone 1, reported with a sensor label.
TrackedPanel == "p1"

TrackedEvent == Event(<<"1">>, "Zone", "Back Door", "1")

\* async_get_event_log(panel_id, limit=limit): the newest `limit` entries of
\* the panel's log.  `batch` stands for the other entries; the tracked entry
\* is among the newest NarrowLimit while "recent", among the newest WideLimit
\* (and not the newest NarrowLimit) while "old".
Window(batch, panel_id) ==
    IF /\ panel_id = TrackedPanel
       /\ \/ tracked.depth = "recent"
          \/ tracked.depth = "old" /\ event_limit = WideLimit
    THEN batch \o <<TrackedEvent>>
    ELSE batch

\* The panel reports the tracked event between two cycles: the entry enters the
\* log, near its head or (after a burst of other entries) further down.
EventLogged(depth) ==
    /\ pc = "idle"
    /\ tracked.depth = "none"
    /\ tracked' = [depth |-> depth, at |-> poll_count]
    /\ UNCHANGED <<zone_metadata, zones_initialized, poll_count, refresh_token,
                   entry_data, data, last_update, pc, panels, cameras, todo,
                   zone_map, event_limit, step, call, returned, cur, raw_zones,
                   events, new_zones, sub_result, sub_count, sensor_seen,
                   ended_keys, widths, cycles, command, known_keys, entities,
                   notified>>

\* Newer entries push the tracked entry out of the newest NarrowLimit.
EventAges ==
    /\ pc = "idle"
    /\ tracked.depth = "recent"
    /\ tracked' = [tracked EXCEPT !.depth = "old"]
    /\ UNCHANGED <<zone_metadata, zones_initialized, poll_count, refresh_token,
                   entry_data, data, last_update, pc, panels, cameras, todo,
                   zone_map, event_limit, step, call, returned, cur, raw_zones,
                   events, new_zones, sub_result, sub_count, sensor_seen,
                   ended_keys, widths, cycles, command, known_keys, entities,
                   notified>>

\* The services of AlulaAlarmPanel.
Services ==
    {"async_alarm_disarm", "async_alarm_arm_home", "async_alarm_arm_away",
     "async_alarm_arm_night"}

\* The Session Client call each service awaits.
ClientCommand(service) ==
    CASE service = "async_alarm_disarm" -> "async_disarm"
      [] service = "async_alarm_arm_home" -> "async_arm_stay"
      [] service = "async_alarm_arm_away" -> "async_arm_away"
      [] service = "async_alarm_arm_night" -> "async_arm_night"

\* A service of the alarm panel entity of `device`, up to its first await: the
\* Session Client call is made.  The platform creates an entity for each panel
\* of coordinator.data.
CommandCall(service, device) ==
    /\ data # NoData
    /\ device \in DOMAIN Value(data).panels
    /\ command.pc = "done"
    /\ command' = [service |-> service, device |-> device, pc |-> "calling",
                   calls |-> <<[name |-> ClientCommand(service), device |-> device]>>,
                   err |-> "", refreshes |-> 0, raised |-> FALSE]
    /\ UNCHANGED <<zone_metadata, zones_initialized, poll_count, refresh_token,
                   entry_data, data, last_update, pc, panels, cameras, todo,
                   zone_map, event_limit, step, call, returned, cur, raw_zones,
                   events, new_zones, sub_result, sub_count, sensor_seen,
                   ended_keys, widths, cycles, tracked, known_keys, entities,
                   notified>>

\* CommandReturn with the refresh in a `finally`.
CommandReturnAlwaysRefresh(err) ==
    /\ command.pc = "calling"
    /\ command' = [command EXCEPT !.pc = "done", !.err = err, !.refreshes = 1]
    /\ UNCHANGED <<zone_metadata, zones_initialized, poll_count, refresh_token,
                   entry_data, data, last_update, pc, panels, cameras, todo,
                   zone_map, event_limit, step, call, returned, cur, raw_zones,
                   events, new_zones, sub_result, sub_count, sensor_seen,
                   ended_keys, widths, cycles, tracked, known_keys, entities,
                   notified>>

\* The rest of the service: the client call returns and async_request_refresh
\* is called, or the call raises and `except Exception` logs the error.
CommandReturn(err) ==
    /\ command.pc = "calling"
    /\ command' = [command EXCEPT !.pc = "done", !.err = err,
                                  !.refreshes = IF err = "" THEN 1 ELSE 0]
    /\ UNCHANGED <<zone_metadata, zones_initialized, poll_count, refresh_token,
                   entry_data, data, last_update, pc, panels, cameras, todo,
                   zone_map, event_limit, step, call, returned, cur, raw_zones,
                   events, new_zones, sub_result, sub_count, sensor_seen,
                   ended_keys, widths, cycles, tracked, known_keys, entities,
                   notified>>

\* One more entity for each of the keys.
AddEntities(keys) ==
    [k \in DOMAIN entities \cup keys |->
        (IF k \in DOMAIN entities THEN entities[k] ELSE 0)
        + (IF k \in keys THEN 1 ELSE 0)]

\* binary_sensor.async_setup_entry, run once coordinator.data is there: one
\* entity for each zone of the snapshot, and the listener is registered.
async_setup_entry ==
    /\ pc = "idle"
    /\ data # NoData
    /\ notified = -1
    /\ known_keys' = Keys(Value(data).zones)
    /\ entities' = AddEntities(Keys(Value(data).zones))
    /\ notified' = cycles
    /\ UNCHANGED <<zone_metadata, zones_initialized, poll_count, refresh_token,
                   entry_data, data, last_update, pc, panels, cameras, todo,
                   zone_map, event_limit, step, call, returned, cur, raw_zones,
                   events, new_zones, sub_result, sub_count, sensor_seen,
                   ended_keys, widths, cycles, tracked, command>>

\* _async_check_new_zones without the `key not in known_keys` test.
_async_check_new_zonesUnchecked ==
    /\ pc = "idle"
    /\ 0 <= notified /\ notified < cycles
    /\ known_keys' = known_keys \cup Keys(Value(data).zones)
    /\ entities' = AddEntities(Keys(Value(data).zones))
    /\ notified' = cycles
    /\ UNCHANGED <<zone_metadata, zones_initialized, poll_count, refresh_token,
                   entry_data, data, last_update, pc, panels, cameras, todo,
                   zone_map, event_limit, step, call, returned, cur, raw_zones,
                   events, new_zones, sub_result, sub_count, sensor_seen,
                   ended_keys, widths, cycles, tracked, command>>

\* The listener _async_check_new_zones, called when a cycle has ended: an
\* entity for each zone of the snapshot whose key is not known yet.
_async_check_new_zones ==
    /\ pc = "idle"
    /\ 0 <= notified /\ notified < cycles
    /\ LET new_keys == Keys(Value(data).zones) \ known_keys
       IN  /\ known_keys' = known_keys \cup new_keys
           /\ entities' = AddEntities(new_keys)
    /\ notified' = cycles
    /\ UNCHANGED <<zone_metadata, zones_initialized, poll_count, refresh_token,
                   entry_data, data, last_update, pc, panels, cameras, todo,
                   zone_map, event_limit, step, call, returned, cur, raw_zones,
                   events, new_zones, sub_result, sub_count, sensor_seen,
                   ended_keys, widths, cycles, tracked, command>>

\* The platform has still to see the snapshot of the cycle that ended last.
NotificationPending ==
    /\ pc = "idle"
    /\ \/ notified = -1 /\ data # NoData
       \/ 0 <= notified /\ notified < cycles

\* One step of the coordinator in an environment env: the values the Session
\* Client may hand back (device lists, tokens, deep-scan results and event
\* batches per panel), the errors it may raise and the number of cycles the
\* update interval starts.
NextIn(env) ==
    \/ /\ cycles < env.max_cycles
       /\ \E devices \in env.device_lists, token \in env.tokens :
              GetDevices(devices, token)
    \/ /\ cycles < env.max_cycles
       /\ \E err \in env.device_errors : GetDevicesFail(err)
    \/ \E err \in env.errors : InitDiscoverFail(err)
    \/ /\ pc = "init"
       /\ \E raw \in env.raw_zone_maps[Head(todo)], err \in env.errors :
              InitSubscribeFail(raw, err)
    \/ /\ pc = "init"
       /\ \E raw \in env.raw_zone_maps[Head(todo)], renew \in {""} \cup env.errors :
              InitPanel(raw, renew)
    \/ \E err \in env.errors : PollPanelFail(err)
    \/ /\ pc = "poll"
       /\ \E batch \in env.batches[Head(todo)], sub \in {""} \cup env.errors :
              PollPanel(Window(batch, Head(todo)), sub)
    \/ \E token \in env.tokens : ClientRefresh(token)

\* --------------------------------------------------------- the environments

\* The account's two panels, in either order, and then its camera.
AccountOrders ==
    {s \in DeviceLists : Len(s) = Cardinality(PanelIds \cup CameraIds) /\ s[Len(s)].is_camera}

\* Panel p1 reports zone 1 as a sensor (named or unnamed) and user code 1.
P1Events ==
    {Event(<<"1">>, "Zone", None, q) : q \in Qualifiers}
    \cup {Event(<<"1">>, "Zone", "Front Door", q) : q \in Qualifiers}
    \cup {Event(<<"1">>, "User", "Joshua", q) : q \in Qualifiers}

\* Panel p2 reports its zone 1 opening.
P2Events == {Event(<<"1">>, "Zone", "Hall", "1")}

P1RawZoneMaps ==
    UNION {[S -> {[zone_name |-> n, zone_type |-> zt] :
                     n \in {None, "Front Door"}, zt \in {"Zone", "User"}}] :
           S \in SUBSET {1}}

P2RawZoneMaps == {EmptyDict, (1 :> [zone_name |-> "Hall", zone_type |-> "Zone"])}

MainEnv ==
    [device_lists |-> AccountOrders,
     tokens |-> {"t1"},
     device_errors |-> {"AlulaApiError"},
     errors |-> {"AlulaApiError"},
     raw_zone_maps |-> ("p1" :> P1RawZoneMaps) @@ ("p2" :> P2RawZoneMaps),
     batches |-> ("p1" :> Batches(P1Events)) @@ ("p2" :> Batches(P2Events)),
     max_cycles |-> MaxCycles]

Next == NextIn(MainEnv)

Spec == Init /\ [][Next]_vars

\* Few zones, every token: the environment for the credential claims.
QuietEvents == {Event(<<"1">>, "Zone", "Hall", "1")}

QuietRawZoneMaps == {EmptyDict, (1 :> [zone_name |-> "Hall", zone_type |-> "Zone"])}

CredsEnv ==
    [device_lists |-> DeviceLists,
     tokens |-> Tokens,
     device_errors |-> ClientErrors,
     errors |-> SwallowedErrors,
     raw_zone_maps |-> [p \in PanelIds |-> QuietRawZoneMaps],
     batches |-> [p \in PanelIds |-> Batches(QuietEvents)],
     max_cycles |-> MaxCycles]

CredsNext == NextIn(CredsEnv)

SpecCreds == Init /\ [][CredsNext]_vars

\* Many cycles, little else: the environment for the scan cadence.
CadenceEnv ==
    [device_lists |-> {<<Device("p1"), Device("p2")>>, << >>},
     tokens |-> {"t1"},
     device_errors |-> {"AlulaConnectionError"},
     errors |-> {"AlulaConnectionError"},
     raw_zone_maps |-> ("p1" :> QuietRawZoneMaps) @@ ("p2" :> {EmptyDict}),
     batches |-> [p \in PanelIds |-> {<< >>}],
     max_cycles |-> MaxCadenceCycles]

CadenceNext == NextIn(CadenceEnv)

SpecCadence == Init /\ [][CadenceNext]_vars

\* One panel whose log holds, for zone 1, the qualifiers "1", "3" and "6"
\* (Contact ID: previously reported), and entries whose user/zone field is
\* "0", absent or not a number; its deep scan may list index 0.
EdgeEvents ==
    {Event(<<"1">>, "Zone", "Front Door", q) : q \in {"1", "3", "6"}}
    \cup {Event(<<"0">>, "Zone", "System", "1"),
          Event(<< >>, "Zone", "Nameless", "1"),
          Event(<<"x">>, "Zone", "Garbled", "1")}

EdgeRawZoneMaps ==
    {EmptyDict,
     (1 :> [zone_name |-> "Front Door", zone_type |-> "Zone"]),
     (0 :> [zone_name |-> "System", zone_type |-> "Zone"])}

EdgeEnv ==
    [device_lists |-> {<<Device("p1")>>},
     tokens |-> {"t1"},
     device_errors |-> {"AlulaApiError"},
     errors |-> {"AlulaApiError"},
     raw_zone_maps |-> [p \in PanelIds |-> EdgeRawZoneMaps],
     batches |-> [p \in PanelIds |-> Batches(EdgeEvents)],
     max_cycles |-> MaxCycles]

EdgeNext == NextIn(EdgeEnv)

SpecEdge == Init /\ [][EdgeNext]_vars

\* One panel whose log receives the tracked entry at some time; the deep scan
\* knows at most zone 2, and the newest entry of the log may be a user code
\* with the number of the tracked zone.
LatencyEnv ==
    [device_lists |-> {<<Device(TrackedPanel)>>},
     tokens |-> {"t1"},
     device_errors |-> {"AlulaConnectionError"},
     errors |-> {"AlulaConnectionError"},
     raw_zone_maps |-> [p \in PanelIds |->
                           {EmptyDict, (2 :> [zone_name |-> "Hall", zone_type |-> "Zone"])}],
     batches |-> [p \in PanelIds |-> {<< >>, <<Event(<<"1">>, "User", "Joshua", "1")>>}],
     max_cycles |-> MaxCadenceCycles]

LatencyNext ==
    \/ NextIn(LatencyEnv)
    \/ \E depth \in {"recent", "old"} : EventLogged(depth)
    \/ EventAges

SpecLatency == Init /\ [][LatencyNext]_vars

\* Commands given to the alarm panel entities while the coordinator polls.
CommandEnv ==
    [device_lists |-> {<<Device("p1"), Device("p2")>>},
     tokens |-> {"t1"},
     device_errors |-> {"AlulaApiError"},
     errors |-> {"AlulaApiError"},
     raw_zone_maps |-> [p \in PanelIds |-> QuietRawZoneMaps],
     batches |-> [p \in PanelIds |-> Batches(QuietEvents)],
     max_cycles |-> MaxCycles]

CommandNext ==
    \/ NextIn(CommandEnv)
    \/ \E service \in Services, device \in PanelIds : CommandCall(service, device)
    \/ \E err \in {""} \cup ClientErrors : CommandReturn(err)

SpecCommands == Init /\ [][CommandNext]_vars

\* The zone entities of an account whose second panel and camera come and go.
\* DataUpdateCoordinator calls its listeners when a refresh ends, before it
\* starts the next one: no cycle starts while a notification is pending.
EntityEnv ==
    [device_lists |-> {s \in DeviceLists : s # << >> /\ s[1].id = "p1"},
     tokens |-> {"t1"},
     device_errors |-> {"AlulaApiError"},
     errors |-> {"AlulaApiError"},
     raw_zone_maps |-> [p \in PanelIds |-> QuietRawZoneMaps],
     batches |-> [p \in PanelIds |-> Batches(QuietEvents)],
     max_cycles |-> IF NotificationPending THEN 0 ELSE MaxCycles]

EntityNext ==
    \/ NextIn(EntityEnv)
    \/ async_setup_entry
    \/ _async_check_new_zones

SpecEntities == Init /\ [][EntityNext]_vars

\* ------------------------------------------------------------------- claims

\* The last step polled panel `cur` to the end of its loop iteration.
Polled == step = "PollPanel"

\* The zone states the last poll step built for its panel.
LastZoneStates == IF pc = "poll" THEN zone_map[cur] ELSE Value(data).zones[cur]

\* The positions of the events of a batch that carry zone index z.
EventsFor(batch, z) ==
    {i \in 1..Len(batch) : ~SkipUserZone(batch[i]) /\ ToInt(batch[i].user_zone) = z}

\* The newest of them.
First(S) == CHOOSE i \in S : \A j \in S : i <= j

\* C1: once a zone index is a key of a panel's registry at the end of a cycle,
\* successful or failed, it is a key at the end of every later cycle.
C1_RegistryMonotonic == pc = "idle" => ended_keys \subseteq Keys(zone_metadata)

\* C2: the zone map produced for a polled panel has exactly the keys of the
\* panel's registry after discovery, one Zone per index, whose zone_index is
\* its key and whose panel is the polled panel; so has every zone map of the
\* cycle built so far.
C2_ReconstructionComplete ==
    Polled =>
        /\ DOMAIN LastZoneStates = DOMAIN zone_metadata[cur]
        /\ \A z \in DOMAIN LastZoneStates :
              /\ LastZoneStates[z].zone_index = z
              /\ LastZoneStates[z].device_id = cur
        /\ \A p \in DOMAIN zone_map : DOMAIN zone_map[p] = DOMAIN zone_metadata[p]

C2_Witness ==
    /\ Polled
    /\ events = << >>
    /\ DOMAIN zone_metadata[cur] # {}
    /\ DOMAIN LastZoneStates = DOMAIN zone_metadata[cur]

\* C3: a zone index is in a panel's registry only if that panel showed it with
\* an accepted label (in a deep scan or in an event batch), whatever the other
\* panels registered; and after a deep scan or a poll of a panel every valid
\* index just shown with an accepted label is in that panel's registry.
C3_Classification ==
    /\ Keys(zone_metadata) \subseteq sensor_seen
    /\ Polled =>
          \A i \in 1..Len(events) :
              (/\ ~SkipUserZone(events[i])
               /\ ToInt(events[i].user_zone) # 0
               /\ events[i].user_zone_type \in AcceptedLabels)
              => ToInt(events[i].user_zone) \in DOMAIN zone_metadata[cur]
    /\ step \in {"InitPanel", "InitSubscribeFail"} =>
          \A z \in DOMAIN raw_zones :
              /\ raw_zones[z].zone_type \in AcceptedLabels => z \in DOMAIN zone_metadata[cur]
              /\ raw_zones[z].zone_type \notin AcceptedLabels =>
                     z \notin DOMAIN zone_metadata[cur]

\* Panel p1 showed index 1 only as a user code; p2 has zone 1 registered.
C3_Witness ==
    /\ Polled
    /\ cur = "p1"
    /\ \E i \in 1..Len(events) :
          events[i].user_zone = <<"1">> /\ events[i].user_zone_type = "User"
    /\ 1 \notin DOMAIN zone_metadata["p1"]
    /\ "p2" \in DOMAIN zone_metadata
    /\ 1 \in DOMAIN zone_metadata["p2"]

\* C4: the state derived for a registered zone is the one the first (newest)
\* event for it in the batch gives: open exactly if its qualifier is "1";
\* the later events for the zone change nothing.
C4_NewestWins ==
    Polled =>
        \A z \in DOMAIN zone_metadata[cur] :
            EventsFor(events, z) # {} =>
                LastZoneStates[z].is_active =
                    (events[First(EventsFor(events, z))].event_qualifier = "1")

\* [restore, new] for zone 1 gives closed.
C4_Witness ==
    /\ Polled
    /\ Len(events) = 2
    /\ EventsFor(events, 1) = {1, 2}
    /\ events[1].event_qualifier = "3"
    /\ events[2].event_qualifier = "1"
    /\ LastZoneStates[1].is_active = FALSE

\* C5: a registered zone of a polled panel without an event in the batch is
\* reported closed, with the name and type of the registry.
C5_QuietDefault ==
    Polled =>
        \A z \in DOMAIN zone_metadata[cur] :
            EventsFor(events, z) = {} =>
                /\ z \in DOMAIN LastZoneStates
                /\ LastZoneStates[z].is_active = FALSE
                /\ LastZoneStates[z].zone_name = zone_metadata[cur][z].zone_name
                /\ LastZoneStates[z].device_type_hint = zone_metadata[cur][z].zone_type

\* Registry {1: Front Door}, empty batch, the previous snapshot had zone 1 open.
C5_Witness ==
    /\ Polled
    /\ pc = "poll"
    /\ events = << >>
    /\ DOMAIN zone_metadata[cur] = {1}
    /\ zone_metadata[cur][1].zone_name = "Front Door"
    /\ data # NoData
    /\ cur \in DOMAIN Value(data).zones
    /\ 1 \in DOMAIN Value(data).zones[cur]
    /\ Value(data).zones[cur][1].is_active = TRUE
    /\ zone_map[cur][1].is_active = FALSE
    /\ zone_map[cur][1].zone_name = "Front Door"

\* C6: discovery run again on the panel just polled, with the same batch,
\* returns no new zone, leaves the registry as it is and asks for no
\* subscription.
C6_DiscoveryIdempotent ==
    Polled =>
        /\ _discover_new_zones(zone_metadata[cur], events) = EmptyDict
        /\ MetadataAfterDiscovery(zone_metadata[cur], events) = zone_metadata[cur]
        /\ ~ShouldSubscribe(_discover_new_zones(zone_metadata[cur], events))

\* The first run inserted a zone.
C6_Witness ==
    /\ Polled
    /\ new_zones # EmptyDict
    /\ DOMAIN new_zones \subseteq DOMAIN zone_metadata[cur]
    /\ _discover_new_zones(zone_metadata[cur], events) = EmptyDict

\* C7: a zone newly discovered in a poll is in the registry and in that poll's
\* zone map, open or closed as the newest event for its index says, and with
\* the name observed at discovery.
C7_SamePollDiscovery ==
    Polled =>
        \A z \in DOMAIN new_zones :
            /\ z \in DOMAIN zone_metadata[cur]
            /\ z \in DOMAIN LastZoneStates
            /\ LastZoneStates[z].is_active =
                   (events[First(EventsFor(events, z))].event_qualifier = "1")
            /\ LastZoneStates[z].zone_name = new_zones[z].zone_name

\* C8: when async_get_devices raises AlulaAuthError the cycle ends with an
\* outcome that differs from the one of a transport or API error, and the
\* registry, the counter, the initialized flag, the persisted entry data and
\* the published snapshot are as before the cycle.
C8_AuthFailure ==
    [][(step' = "GetDevicesFail" /\ call'.err = "AlulaAuthError") =>
          /\ pc' = "idle"
          /\ last_update'.success = FALSE
          /\ last_update' # [success |-> FALSE, message |-> "API error"]
          /\ UNCHANGED <<zone_metadata, poll_count, zones_initialized, entry_data,
                         data>>]_vars

\* An auth failure after a successful cycle that registered zones.
C8_Witness ==
    /\ step = "GetDevicesFail"
    /\ call.err = "AlulaAuthError"
    /\ data # NoData
    /\ Keys(zone_metadata) # {}
    /\ poll_count = 1
    /\ last_update = [success |-> FALSE, message |-> "Authentication error"]

\* C9: when async_get_event_log raises for a panel, the cycle ends with the
\* recoverable update-failed outcome, every registry entry stays (those of the
\* panels already polled in the cycle included), the counter keeps its value
\* and the coordinator is idle, ready for the next cycle.
C9_TransportFailure ==
    [][step' = "PollPanelFail" =>
          /\ pc' = "idle"
          /\ last_update' = [success |-> FALSE, message |-> "API error"]
          /\ poll_count' = poll_count
          /\ \A p \in DOMAIN zone_metadata :
                p \in DOMAIN zone_metadata' /\ zone_metadata'[p] = zone_metadata[p]
          /\ \A p \in DOMAIN zone_map :
                DOMAIN zone_map[p] \subseteq DOMAIN zone_metadata'[p]
          /\ step = "PollPanel" => DOMAIN new_zones \subseteq DOMAIN zone_metadata'[cur]]_vars

\* The second panel's event log failed; the zone the first panel's poll had
\* discovered in this cycle is in the registry.
C9_Witness ==
    /\ step = "PollPanelFail"
    /\ new_zones # EmptyDict
    /\ \E p \in DOMAIN zone_metadata \ {cur} :
          DOMAIN new_zones \subseteq DOMAIN zone_metadata[p]
    /\ last_update = [success |-> FALSE, message |-> "API error"]
    /\ pc = "idle"

\* C10: a step whose subscription call raised ApiError or ConnectionError does
\* not end the cycle in failure, in the initial pass as in a poll.
C10_SubscriptionFailureNonFatal ==
    sub_result \in SwallowedErrors => ~(pc = "idle" /\ ~last_update.success)

\* A cycle ends in the step.
CycleEnds == pc' = "idle" /\ (pc # "idle" \/ cycles' # cycles)

\* The elements of a sequence.
Range(s) == {s[i] : i \in 1..Len(s)}

\* C11: the published snapshot changes only in the step that ends a successful
\* cycle, and then it holds the panels, the cameras and one zone map for every
\* panel of the cycle's device list; a step that ends a failed cycle, and every
\* step inside a cycle, leaves the published snapshot as it was.
C11_SnapshotAtomicity ==
    [][/\ (CycleEnds /\ last_update'.success) =>
             /\ data' # NoData
             /\ DOMAIN Value(data').zones = DOMAIN Value(data').panels
             /\ pc # "idle" =>
                    /\ DOMAIN Value(data').panels = Range(panels)
                    /\ DOMAIN Value(data').cameras = cameras
                    /\ \A p \in DOMAIN zone_map : Value(data').zones[p] = zone_map[p]
       /\ (CycleEnds /\ ~last_update'.success) => data' = data
       /\ ~CycleEnds => data' = data]_vars

\* A poll failed at its second panel after the first panel's poll had found a
\* zone that the published snapshot, of an earlier cycle, does not hold.
C11_Witness ==
    /\ step = "PollPanelFail"
    /\ data # NoData
    /\ new_zones # EmptyDict
    /\ \E p \in DOMAIN zone_metadata \ {cur} :
          /\ p \in DOMAIN Value(data).zones
          /\ DOMAIN new_zones \subseteq DOMAIN zone_metadata[p]
          /\ DOMAIN new_zones \cap DOMAIN Value(data).zones[p] = {}

\* The zone map `zones` holds panel p with one Zone for every index in `keys`,
\* filed under its own index and panel.
Covers(zones, p, keys) ==
    /\ p \in DOMAIN zones
    /\ keys \subseteq DOMAIN zones[p]
    /\ \A z \in DOMAIN zones[p] :
          zones[p][z].zone_index = z /\ zones[p][z].device_id = p

InitSteps == {"InitDiscoverFail", "InitSubscribeFail", "InitPanel"}

\* C13: the coordinator is initialized (STEADY) at the end of a cycle only if
\* that cycle or an earlier one returned a snapshot; once initialized it stays
\* so; the initial pass runs only while uninitialized, is entered by every
\* cycle that finds the coordinator uninitialized, and visits every panel of
\* the cycle's device list.
C13_SteadyOnFirstSuccess ==
    [][/\ (CycleEnds /\ zones_initialized') => data' # NoData
       /\ zones_initialized => zones_initialized'
       /\ pc = "init" => ~zones_initialized
       /\ (step' = "GetDevices" /\ cycles' # cycles /\ ~zones_initialized) =>
             \/ pc' = "init" /\ todo' = panels' /\ panels' # << >>
             \/ pc' = "idle" /\ Value(data').panels = EmptyDict
       /\ (pc = "init" /\ pc' = "poll") => Tail(todo) = << >>]_vars

\* The positions of the wide scans in a log of event-log limits.
WideAt(log) == {i \in 1..Len(log) : log[i] = 500}

\* C14: while a cycle polls, its event-log limit is 500 if the counter is a
\* multiple of 20 and 100 otherwise, the same for every panel of the cycle;
\* the counter starts at 0, grows by one in the step that ends a successful
\* cycle and in no other step; the first successful cycle is wide and every
\* 20 successful cycles in a row have exactly one wide cycle.
C14_ScanCadence ==
    /\ [](pc = "poll" => event_limit = IF poll_count % 20 = 0 THEN 500 ELSE 100)
    /\ [](cycles = 0 => poll_count = 0)
    /\ [](Len(widths) = poll_count)
    /\ [](widths # << >> => widths[1] = 500)
    /\ [](\A i \in 1..(Len(widths) - 19) :
              Cardinality(WideAt(widths) \cap i..(i + 19)) = 1)
    /\ [][/\ (pc = "poll" /\ pc' = "poll") => event_limit' = event_limit
          /\ (CycleEnds /\ last_update'.success) => poll_count' = poll_count + 1
          /\ ~(CycleEnds /\ last_update'.success) => poll_count' = poll_count]_vars

\* The 21st successful cycle, wide again, polled two panels; a cycle had failed.
C14_Witness ==
    /\ step = "PollPanel"
    /\ pc = "idle"
    /\ poll_count = 21
    /\ cycles > 21
    /\ widths[21] = 500
    /\ widths[20] = 100
    /\ Cardinality(DOMAIN Value(data).zones) = 2

\* The subscription requests counted for a <<panel, zone index>> pair.
Requests(counts, k) == IF k \in DOMAIN counts THEN counts[k] ELSE 0

\* C15: every <<panel, zone index>> of the registry has had exactly one
\* subscription request, made in the step (hence the cycle) that inserted the
\* index; no step requests a subscription for an index already registered.
C15_SubscribeOnce ==
    [][\A k \in Keys(zone_metadata') :
          /\ Requests(sub_count', k) = 1
          /\ Requests(sub_count', k) # Requests(sub_count, k) =>
                 k \notin Keys(zone_metadata)]_vars

\* The persistence callback (async_update_entry) was invoked in the step.
Persisted == entry_data' # entry_data

\* What C16 says of the step in which async_get_devices returns or raises.
C16_AtGetDevices ==
    /\ (step' = "GetDevices" /\ cycles' # cycles) =>
          /\ Persisted <=>
                 (refresh_token' # "" /\ refresh_token' # entry_data.refresh_token)
          /\ Persisted => entry_data'.refresh_token = refresh_token'
          /\ entry_data'.username = entry_data.username
          /\ entry_data'.password = entry_data.password
          /\ refresh_token' # "" => entry_data'.refresh_token = refresh_token'
    /\ (step' = "GetDevicesFail" /\ cycles' # cycles) => ~Persisted

\* C16: in the step in which async_get_devices returns, the entry data are
\* updated exactly if the client's token is non-empty and not the persisted
\* one, to hold that token with username and password as they were; they are
\* not updated when async_get_devices raises; and at the end of a cycle in
\* which async_get_devices returned, failed or not, the persisted token is the
\* client's token if that is non-empty.
C16_CredentialPersistence ==
    [][/\ C16_AtGetDevices
       /\ (CycleEnds /\ step' # "GetDevicesFail" /\ refresh_token' # "") =>
             entry_data'.refresh_token = refresh_token']_vars

\* C16 without the end of the cycle: as above for the step in which
\* async_get_devices returns or raises, and no other step of a cycle updates
\* the entry data, so a token the client sets later in the cycle is not
\* persisted by that cycle.
C16_PersistAtGetDevices ==
    [][/\ C16_AtGetDevices
       /\ ~(step' = "GetDevices" /\ cycles' # cycles) => ~Persisted]_vars

\* The cycle stored the rotated token t2 over t1 and then failed.
C16_Witness ==
    /\ pc = "idle"
    /\ step \in {"PollPanelFail", "InitDiscoverFail", "InitSubscribeFail"}
    /\ ~last_update.success
    /\ refresh_token = "t2"
    /\ entry_data = [username |-> "user", password |-> "secret", refresh_token |-> "t2"]

\* C18: when async_get_devices returns a list without a panel, the cycle ends
\* in that step, with no further client call, as a success: the snapshot's
\* panels and zones maps are empty (and its cameras map, for the empty list),
\* the counter is one higher, and the registry and the subscription requests
\* are as before.
C18_NoPanelsNoError ==
    [][(/\ step' = "GetDevices"
        /\ cycles' # cycles
        /\ \A i \in 1..Len(Value(returned')) : ~Value(returned')[i].is_panel) =>
          /\ pc' = "idle"
          /\ call'.name = "async_get_devices"
          /\ last_update'.success
          /\ Value(data').panels = EmptyDict
          /\ Value(data').zones = EmptyDict
          /\ Value(returned') = << >> => Value(data').cameras = EmptyDict
          /\ poll_count' = poll_count + 1
          /\ zone_metadata' = zone_metadata
          /\ sub_count' = sub_count]_vars

\* The second cycle got the empty device list; the first had registered zones.
C18_Witness ==
    /\ step = "GetDevices"
    /\ returned = Some(<< >>)
    /\ pc = "idle"
    /\ last_update.success
    /\ poll_count = 2
    /\ Keys(zone_metadata) # {}
    /\ data = Some([panels |-> EmptyDict, cameras |-> EmptyDict, zones |-> EmptyDict])

\* The positions of the events for zone z whose qualifier says opened ("1")
\* or restored ("3").
IndicativeFor(batch, z) ==
    {i \in EventsFor(batch, z) : batch[i].event_qualifier \in {"1", "3"}}

\* C19: the state of a registered zone (index not 0) of a polled panel is the
\* one of the newest event for it whose qualifier is "1" (open) or "3" (closed); events
\* with another qualifier are passed over; without such an event the zone is
\* closed.
C19_IndicativeQualifiers ==
    Polled =>
        \A z \in DOMAIN zone_metadata[cur] \ {0} :
            LastZoneStates[z].is_active =
                IF IndicativeFor(events, z) = {} THEN FALSE
                ELSE events[First(IndicativeFor(events, z))].event_qualifier = "1"

\* An event whose user/zone field is absent, not a number, or the number 0.
Reserved(event) ==
    \/ event.user_zone = << >>
    \/ \E i \in 1..Len(event.user_zone) : event.user_zone[i] \notin Digits
    \/ ToInt(event.user_zone) = 0

\* A batch without its reserved entries.
WithoutReserved(batch) == SelectSeq(batch, LAMBDA event : ~Reserved(event))

\* C20: index 0 is never a key of the registry nor of a zone map, built or
\* published, whether it came from the deep scan or from an event batch; and
\* a poll of a panel leaves the panel's registry and zone states as the batch
\* without its reserved entries would.
C20_ReservedZero ==
    /\ [](\A p \in DOMAIN zone_metadata : 0 \notin DOMAIN zone_metadata[p])
    /\ [](\A p \in DOMAIN zone_map : 0 \notin DOMAIN zone_map[p])
    /\ [](data # NoData =>
             \A p \in DOMAIN Value(data).zones : 0 \notin DOMAIN Value(data).zones[p])
    /\ [][step' = "PollPanel" =>
             LET before == SetDefault(zone_metadata, cur')[cur']
                 clean == WithoutReserved(events')
                 after == MetadataAfterDiscovery(before, clean)
                 zones == IF pc' = "poll" THEN zone_map'[cur']
                          ELSE Value(data').zones[cur']
             IN  /\ zone_metadata'[cur'] = after
                 /\ zones = BuildZoneStates(cur', after, clean)]_vars

\* The zone maps a step builds or publishes: the cycle's map so far, or the
\* snapshot's when the step ends a successful cycle.
BuiltZones ==
    IF pc' = "poll" THEN zone_map'
    ELSE IF CycleEnds /\ last_update'.success THEN Value(data').zones
    ELSE EmptyDict

\* C21: a non-blank name held by the registry for a zone is the name the
\* registry holds for the zone after every step, and the name of the zone in
\* every zone map built or published by the step.
C21_NameStable ==
    [][\A p \in DOMAIN zone_metadata :
          \A z \in DOMAIN zone_metadata[p] :
              Truthy(zone_metadata[p][z].zone_name) =>
                  /\ (p \in DOMAIN zone_metadata' /\ z \in DOMAIN zone_metadata'[p]) =>
                         zone_metadata'[p][z].zone_name = zone_metadata[p][z].zone_name
                  /\ (p \in DOMAIN BuiltZones /\ z \in DOMAIN BuiltZones[p]) =>
                         BuiltZones[p][z].zone_name = zone_metadata[p][z].zone_name]_vars

\* The registry entry of a panel, empty for a panel the registry does not hold.
RegistryOf(registry, p) == IF p \in DOMAIN registry THEN registry[p] ELSE EmptyDict

\* C22: a step working on panel P (cur) leaves the registry entry and the zone
\* map of every other panel as they were; a poll step gives P the registry
\* and the zone states that P's own registry entry and P's own batch
\* determine; and the snapshot takes over the zone maps of the panels polled
\* earlier unchanged.  Hence the result for each panel is the same in either
\* processing order.
C22_PanelIndependence ==
    [][/\ \A q \in DOMAIN zone_metadata \cup DOMAIN zone_metadata' :
             q # cur' => /\ q \in DOMAIN zone_metadata
                         /\ q \in DOMAIN zone_metadata'
                         /\ zone_metadata'[q] = zone_metadata[q]
       /\ \A q \in DOMAIN zone_map :
             (q # cur' /\ q \in DOMAIN BuiltZones) => BuiltZones[q] = zone_map[q]
       /\ (step' = "PollPanel" /\ refresh_token' = refresh_token) =>
             LET after == MetadataAfterDiscovery(RegistryOf(zone_metadata, cur'), events')
             IN  /\ zone_metadata'[cur'] = after
                 /\ BuiltZones[cur'] = BuildZoneStates(cur', after, events')
                 /\ DOMAIN BuiltZones = DOMAIN zone_map \cup {cur'}]_vars

\* The second successful cycle polled p2 and then p1; p2 has shown no zone and
\* has none, while p1 has one.
C22_Witness ==
    /\ step = "PollPanel"
    /\ pc = "idle"
    /\ last_update.success
    /\ cur = "p1"
    /\ DOMAIN Value(data).zones = {"p1", "p2"}
    /\ Value(data).zones["p2"] = EmptyDict
    /\ Value(data).zones["p1"] # EmptyDict
    /\ zone_metadata["p2"] = EmptyDict
    /\ <<"p2", 1>> \notin sensor_seen
    /\ poll_count = 2

\* Zone 1 of the tracked panel is in the registry and in the snapshot.
TrackedZoneKnown ==
    /\ TrackedPanel \in DOMAIN zone_metadata
    /\ 1 \in DOMAIN zone_metadata[TrackedPanel]
    /\ data # NoData
    /\ TrackedPanel \in DOMAIN Value(data).zones
    /\ 1 \in DOMAIN Value(data).zones[TrackedPanel]

\* C23: bounded discovery latency.  Once a sensor-type entry for zone 1 of the
\* panel is in its event log (entered between two cycles) and stays among the
\* newest 500 entries, the zone is in the registry and in the snapshot when 20
\* further cycles have succeeded; while the entry has stayed among the newest
\* 100 entries, when one further cycle has succeeded.  Failed cycles do not
\* count.
C23_DiscoveryLatency ==
    tracked.depth # "none" =>
        /\ poll_count - tracked.at >= 20 => TrackedZoneKnown
        /\ (tracked.depth = "recent" /\ poll_count - tracked.at >= 1) => TrackedZoneKnown

\* The entry entered the log below the newest 100 right after the first
\* successful cycle (a wide one); 19 narrow cycles did not see it, and the
\* 20th further successful cycle, the next wide one, has just discovered it.
C23_Witness ==
    /\ tracked = [depth |-> "old", at |-> 1]
    /\ poll_count = 21
    /\ step = "PollPanel"
    /\ pc = "idle"
    /\ 1 \in DOMAIN new_zones
    /\ widths[21] = 500
    /\ TrackedZoneKnown

\* The client call that corresponds to a service of the alarm panel entity.
Corresponding(service) ==
    IF service = "async_alarm_disarm" THEN "async_disarm"
    ELSE IF service = "async_alarm_arm_home" THEN "async_arm_stay"
    ELSE IF service = "async_alarm_arm_away" THEN "async_arm_away"
    ELSE "async_arm_night"

\* C24: command pass-through ordering.  A command makes exactly one client
\* call, the one corresponding to its service, for its panel, and has requested
\* no refresh while that call is pending; when the call returns without error
\* exactly one refresh is requested; when it raises, no refresh is requested
\* and nothing is raised to the caller; no step of a command changes the
\* registry, the cycle counter or the snapshot.
C24_CommandPassThrough ==
    [][/\ command' # command =>
             /\ zone_metadata' = zone_metadata
             /\ poll_count' = poll_count
             /\ data' = data
       /\ (command' # command /\ command'.pc = "calling") =>
             /\ command.pc = "done"
             /\ command'.calls = <<[name |-> Corresponding(command'.service),
                                    device |-> command'.device]>>
             /\ command'.device \in PanelIds
             /\ command'.refreshes = 0
             /\ ~command'.raised
       /\ (command' # command /\ command'.pc = "done") =>
             /\ command.pc = "calling"
             /\ command'.calls = command.calls
             /\ command'.service = command.service
             /\ command'.device = command.device
             /\ ~command'.raised
             /\ command'.refreshes = IF command'.err = "" THEN 1 ELSE 0]_vars

\* An arm-night command for p2 whose client call was pending while a cycle
\* finished has failed with an authentication error: one call, no refresh.
C24_Witness ==
    /\ command.pc = "done"
    /\ command.service = "async_alarm_arm_night"
    /\ command.device = "p2"
    /\ command.err = "AlulaAuthError"
    /\ command.calls = <<[name |-> "async_arm_night", device |-> "p2"]>>
    /\ command.refreshes = 0
    /\ pc = "poll"
    /\ poll_count = 1

\* The entries of a batch whose label is in the accepted sensor set.
SensorEvents(batch) == SelectSeq(batch, LAMBDA event : IsSensorLabel(event.user_zone_type))

\* C25: non-sensor events do not drive zone state.  After a panel is polled,
\* the open/closed state of each of its registered zones is the one the batch
\* gives without its entries labelled outside the accepted sensor set.
C25_NonSensorEventsIgnored ==
    Polled =>
        \A z \in DOMAIN zone_metadata[cur] :
            LastZoneStates[z].is_active =
                BuildZoneStates(cur, zone_metadata[cur], SensorEvents(events))[z].is_active

\* The <<panel, zone index>> pairs of coordinator.data, none before the first.
SnapshotKeys(d) == IF d = NoData THEN {} ELSE Keys(Value(d).zones)

\* C26: one entity per zone.  No pair has more than one entity; an entity, once
\* created, stays, whatever later snapshots hold; entities are created only for
\* pairs of the current snapshot; after each run of the listener, and whenever
\* no notification is pending, every pair of the current snapshot has one.
C26_OneEntityPerZone ==
    /\ [](\A k \in DOMAIN entities : entities[k] = 1)
    /\ []((notified >= 0 /\ ~NotificationPending) =>
              SnapshotKeys(data) \subseteq DOMAIN entities)
    /\ [][/\ DOMAIN entities \subseteq DOMAIN entities'
          /\ \A k \in DOMAIN entities : entities'[k] = entities[k]
          /\ DOMAIN entities' \ DOMAIN entities \subseteq SnapshotKeys(data')
          /\ notified' # notified =>
                SnapshotKeys(data') \subseteq DOMAIN entities']_vars

\* Zone 1 of p2 got its entity from the first snapshot; the second snapshot has
\* no p2 but a new zone of p1, for which the listener has added an entity.
C26_Witness ==
    /\ notified = 2
    /\ cycles = 2
    /\ poll_count = 2
    /\ "p2" \notin DOMAIN Value(data).zones
    /\ entities = (<<"p2", 1>> :> 1) @@ (<<"p1", 1>> :> 1)
    /\ zone_metadata["p2"] # EmptyDict

====
